---- MODULE Spec2Model ----
(***************************************************************************)
(* Model of src/server.py: the /stream endpoint (stream_audio) that        *)
(* resolves an audio URL for a videoId through the Redis-backed cache, a   *)
(* HEAD probe of the cached URL, and a yt-dlp extraction.  Several         *)
(* requests run concurrently (Flask serves each request on its own thread  *)
(* and the only shared state is the cache store and the environment).      *)
(* The recently-played and liked-songs endpoints keep their lists in the   *)
(* same store.                                                             *)
(***************************************************************************)
EXTENDS Integers, Sequences, FiniteSets, TLC

\* ---------------------------------------------------------------- bounds
\* number of /stream requests issued in one behaviour
MaxRequests == 2
\* number of distinct signed URLs the extractor can hand out per video
MaxUrls == 2
\* number of recently-played / liked-songs requests issued in one behaviour
MaxListRequests == 2

Requests == 1..MaxRequests
ListRequests == 1..MaxListRequests

\* ---------------------------------------------------------------- inputs
\* A videoId is a sequence of characters.  The empty one stands for a
\* request body whose videoId is missing, null or "" (all falsy in Python).
NoVideoId == <<>>
VideoIds == { NoVideoId, <<"a", "_">>, <<"a", "/">> }

\* The value of the YOUTUBE_COOKIES environment variable (unset or "" is falsy).
NoCookies == <<>>
CookieValues == { NoCookies, <<"SID=1">> }

\* What requests.head(cached_audio_url) can produce: a status code, or an
\* exception (timeout, connection failure), written as status 0.
ProbeRaised == 0
ProbeOutcomes == { 200, 206, 404, ProbeRaised }

\* str(e) of the exceptions ydl.extract_info can raise, as word sequences.
BotMarker == <<"confirm", "you're", "not", "a", "bot">>
BotMessage == <<"Sign", "in", "to", "confirm", "you're", "not", "a", "bot">>
PrivateMessage == <<"Private", "video">>
UnavailableMessage == <<"Video", "unavailable">>
ExtractorMessages == { BotMessage, PrivateMessage, UnavailableMessage }
\* str(e) of the exception a cache operation raises when Redis is unreachable.
CacheDownMessage == <<"Error", "connecting", "to", "Redis">>

\* ---------------------------------------------------------------- values
None == <<>>
NoUrl == <<>>
\* the n-th signed URL the extractor returns for a video
Url(v, n) == <<"https", v, n>>
UrlsOf(v) == { Url(v, n) : n \in 1..MaxUrls }

\* Python truthiness of a string-or-None value
Truthy(x) == x # <<>>

\* ---------------------------------------------------------------- cache
\* The store is a set of entries; flask_caching's get/set address one key.
\* variant of the key that leaves the videoId out
AudioKey_NoId(v) == <<"audio_url:">>
AudioKey(v) == <<"audio_url:", v>>
AudioTimeout == 60 * 60 * 24 * 7

HasKey(c, k) == \E e \in c : e.key = k
CacheGet(c, k) == IF HasKey(c, k) THEN (CHOOSE e \in c : e.key = k).val ELSE None
\* variant of set that adds the new entry beside the old one
CacheSet_KeepOld(c, k, v, t) == c \cup { [key |-> k, val |-> v, timeout |-> t] }
CacheSet(c, k, v, t) == { e \in c : e.key # k } \cup { [key |-> k, val |-> v, timeout |-> t] }
CacheExpire(c, k) == { e \in c : e.key # k }

\* ---------------------------------------------------------------- lists
\* the four list endpoints and the key each one addresses
Endpoints == { "add_recently_played", "get_recently_played", "like_song", "get_liked_songs" }
Posts == { "add_recently_played", "like_song" }
RecentKey == <<"recently_played">>
LikedKey == <<"liked_songs">>
ListKeys == { RecentKey, LikedKey }
ListKey(op) == IF op \in { "add_recently_played", "get_recently_played" } THEN RecentKey ELSE LikedKey
RecentTimeout == 60 * 60 * 24 * 2
LikedTimeout == 60 * 60 * 24 * 120
ListTimeout(op) == IF op = "add_recently_played" THEN RecentTimeout ELSE LikedTimeout
RecentLimit == 10

\* request bodies: videoId and title, either of which may be missing or ""
Song(v, t) == [videoId |-> v, title |-> t]
NoSong == Song("", "")
Bodies == { Song("x", "t"), Song("y", "t"), Song("x", ""), Song("", "t") }
StrTruthy(x) == x # ""

\* A Python list as the store returns it (cache.set pickles the object, cache.get
\* unpickles it), and a str holding the repr of a list.
PyList(items) == <<"list", items>>
PyRepr(items) == <<"repr", items>>
\* eval(x): defined on a str only; on a list it raises TypeError
PyEvalRaises(x) == x[1] # "repr"
PyEval(x) == x[2]

\* recently_played[-10:]
LastN(q, n) == IF Len(q) <= n THEN q ELSE SubSeq(q, Len(q) - n + 1, Len(q))
InList(q, x) == \E i \in 1..Len(q) : q[i] = x
\* lines 173-174
AppendBounded(q, x) == LastN(Append(q, x), RecentLimit)
\* lines 202-203
AppendIfAbsent(q, x) == IF InList(q, x) THEN q ELSE Append(q, x)

ListResponse(s, b) == [status |-> s, body |-> b]
NoListResponse == ListResponse(0, <<>>)
FieldsRequired == ListResponse(400, <<"error", "Video ID and title are required">>)
Added(op) ==
    ListResponse(200, <<"message", IF op = "add_recently_played"
                                     THEN "Song added to recently played"
                                     ELSE "Song added to liked songs">>)
ListBody(items) == ListResponse(200, <<"list", items>>)
\* an exception the handler does not catch: Flask answers 500
ListServerError == ListResponse(500, <<"error", "Internal Server Error">>)

\* ---------------------------------------------------------------- responses
Response(s, e, u) == [status |-> s, error |-> e, audioUrl |-> u]
NoResponse == Response(0, <<>>, NoUrl)
VideoIdRequired == Response(400, <<"Video ID is required">>, NoUrl)
AudioUrlResponse(u) == Response(200, <<>>, u)
CookieConfigMissing == Response(500, <<"Cookie configuration missing">>, NoUrl)
BotDetection == Response(403, <<"YouTube bot detection triggered. Please check cookie configuration.">>, NoUrl)
ExtractFailed(msg) == Response(500, <<"Failed to extract video info: ">> \o msg, NoUrl)
ProcessFailed == Response(500, <<"Failed to process video request">>, NoUrl)
\* an exception no handler of stream_audio catches: Flask answers 500
InternalServerError == Response(500, <<"Internal Server Error">>, NoUrl)

\* `marker in str(e)`: marker occurs as a contiguous part of msg
Contains(msg, marker) ==
    \E i \in 0..(Len(msg) - Len(marker)) :
        \A j \in 1..Len(marker) : msg[i + j] = marker[j]

\* the except clause around extract_info and cache.set
ExtractionError(msg) == IF Contains(msg, BotMarker) THEN BotDetection ELSE ExtractFailed(msg)

\* variants of the status test: no test at all, and the test inverted
ProbeValid_AnyStatus(st) == TRUE
ProbeValid_Inverted(st) == st # 200

\* the test applied to the HEAD response of the cached URL
ProbeValid(st) == st = 200

\* ---------------------------------------------------------------- state
VARIABLES
    cache,             \* the Redis store
    cookie_data,       \* os.getenv('YOUTUBE_COOKIES')
    pc,                \* position of each request in stream_audio
    video_id,          \* data.get('videoId')
    cached_audio_url,  \* result of cache.get
    audio_url,         \* info_dict['url']
    resp,              \* the response returned
    ops,               \* history: the external calls the request made, in order
    atLookup,          \* history: what the store held under the key at cache.get
    probe,             \* history: outcome of requests.head (-1 = not probed)
    raised,            \* history: the call that raised ("none" if none did)
    message,           \* history: str(e) caught by the inner except clause
    prior,             \* history: requests already answered when this one began
    expired,           \* history: keys whose entry expired since its last write
    lapsed,            \* history: keys whose entry has ever expired
    lpc,               \* position of each list request in its handler
    lop,               \* the endpoint the list request addresses
    lsong,             \* its body: videoId and title
    llist,             \* its local recently_played / liked_songs
    lresp,             \* the response returned
    lraised,           \* history: the call that raised ("none" if none did)
    lprior             \* history: list requests already answered when this one began

svars == << cookie_data, pc, video_id, cached_audio_url, audio_url, resp,
            ops, atLookup, probe, raised, message, prior >>
lvars == << lpc, lop, lsong, llist, lresp, lraised, lprior >>
vars == << cache, expired, lapsed, svars, lvars >>

hist == << atLookup, probe, raised, message, prior >>

Keys == { AudioKey(v) : v \in VideoIds \ {NoVideoId} }

\* no request has begun
InitRequests ==
    /\ cookie_data \in CookieValues
    /\ pc = [r \in Requests |-> "idle"]
    /\ video_id = [r \in Requests |-> NoVideoId]
    /\ cached_audio_url = [r \in Requests |-> None]
    /\ audio_url = [r \in Requests |-> NoUrl]
    /\ resp = [r \in Requests |-> NoResponse]
    /\ ops = [r \in Requests |-> <<>>]
    /\ atLookup = [r \in Requests |-> None]
    /\ probe = [r \in Requests |-> -1]
    /\ raised = [r \in Requests |-> "none"]
    /\ message = [r \in Requests |-> <<>>]
    /\ prior = [r \in Requests |-> {}]
    /\ expired = {}
    /\ lapsed = {}
    /\ lpc = [i \in ListRequests |-> "idle"]
    /\ lop = [i \in ListRequests |-> "get_recently_played"]
    /\ lsong = [i \in ListRequests |-> NoSong]
    /\ llist = [i \in ListRequests |-> <<>>]
    /\ lresp = [i \in ListRequests |-> NoListResponse]
    /\ lraised = [i \in ListRequests |-> "none"]
    /\ lprior = [i \in ListRequests |-> {}]

Init ==
    /\ cache = {}
    /\ InitRequests

\* the request returns response x
Return(r, x) ==
    /\ resp' = [resp EXCEPT ![r] = x]
    /\ pc' = [pc EXCEPT ![r] = "done"]

Goto(r, l) ==
    /\ pc' = [pc EXCEPT ![r] = l]
    /\ UNCHANGED resp

Call(r, name) == ops' = [ops EXCEPT ![r] = Append(@, name)]

\* lines 89-93: read the body, reject a missing videoId
Start(r) ==
    /\ pc[r] = "idle"
    /\ \E v \in VideoIds :
        /\ video_id' = [video_id EXCEPT ![r] = v]
        /\ IF ~Truthy(v) THEN Return(r, VideoIdRequired) ELSE Goto(r, "lookup")
    /\ prior' = [prior EXCEPT ![r] = { q \in Requests : pc[q] = "done" }]
    /\ UNCHANGED << cache, cookie_data, cached_audio_url, audio_url, ops,
                    atLookup, probe, raised, message, expired >>

\* lines 96-97: cache.get; a backend failure is caught by no handler
Lookup(r) ==
    /\ pc[r] = "lookup"
    /\ Call(r, "get")
    /\ atLookup' = [atLookup EXCEPT ![r] = CacheGet(cache, AudioKey(video_id[r]))]
    /\ \/ /\ cached_audio_url' = [cached_audio_url EXCEPT ![r] = CacheGet(cache, AudioKey(video_id[r]))]
          /\ IF Truthy(cached_audio_url'[r]) THEN Goto(r, "validate") ELSE Goto(r, "cookies")
          /\ UNCHANGED raised
       \/ /\ raised' = [raised EXCEPT ![r] = "get"]
          /\ Return(r, InternalServerError)
          /\ UNCHANGED cached_audio_url
    /\ UNCHANGED << cache, cookie_data, video_id, audio_url, probe, message, prior, expired >>

\* variant of the probe step that rewrites the entry on a hit to renew its timeout
Validate_Refresh(r) ==
    /\ pc[r] = "validate"
    /\ \E st \in ProbeOutcomes :
        /\ probe' = [probe EXCEPT ![r] = st]
        /\ IF st # ProbeRaised /\ ProbeValid(st)
             THEN /\ Return(r, AudioUrlResponse(cached_audio_url[r]))
                  /\ ops' = [ops EXCEPT ![r] = @ \o <<"head", "set">>]
                  /\ cache' = CacheSet(cache, AudioKey(video_id[r]), cached_audio_url[r], AudioTimeout)
             ELSE /\ Goto(r, "cookies")
                  /\ Call(r, "head")
                  /\ UNCHANGED cache
    /\ UNCHANGED << cookie_data, video_id, cached_audio_url, audio_url,
                    atLookup, raised, message, prior, expired >>

\* variant of the probe step that looks the entry up again after a failed probe
Validate_Retry(r) ==
    /\ pc[r] = "validate"
    /\ Call(r, "head")
    /\ \E st \in ProbeOutcomes :
        /\ probe' = [probe EXCEPT ![r] = st]
        /\ IF st # ProbeRaised /\ ProbeValid(st)
             THEN Return(r, AudioUrlResponse(cached_audio_url[r]))
             ELSE Goto(r, "lookup")
    /\ UNCHANGED << cache, cookie_data, video_id, cached_audio_url, audio_url,
                    atLookup, raised, message, prior, expired >>

\* lines 98-106: HEAD probe of the cached URL
Validate(r) ==
    /\ pc[r] = "validate"
    /\ Call(r, "head")
    /\ \E st \in ProbeOutcomes :
        /\ probe' = [probe EXCEPT ![r] = st]
        /\ IF st # ProbeRaised /\ ProbeValid(st)
             THEN Return(r, AudioUrlResponse(cached_audio_url[r]))
             ELSE Goto(r, "cookies")
    /\ UNCHANGED << cache, cookie_data, video_id, cached_audio_url, audio_url,
                    atLookup, raised, message, prior, expired >>

\* lines 109-112: read the cookie configuration
Cookies(r) ==
    /\ pc[r] = "cookies"
    /\ Call(r, "getenv")
    /\ IF ~Truthy(cookie_data) THEN Return(r, CookieConfigMissing) ELSE Goto(r, "extract")
    /\ UNCHANGED << cache, cookie_data, video_id, cached_audio_url, audio_url,
                    hist, expired >>

\* lines 114-137 and 145-155: cookie file, YoutubeDL, extract_info
Extract(r) ==
    /\ pc[r] = "extract"
    /\ \/ \* the temporary cookie file or the YoutubeDL object cannot be set up
          /\ raised' = [raised EXCEPT ![r] = "tempfile"]
          /\ Return(r, ProcessFailed)
          /\ UNCHANGED << ops, audio_url, message >>
       \/ /\ Call(r, "extract")
          /\ \E u \in UrlsOf(video_id[r]) :
                audio_url' = [audio_url EXCEPT ![r] = u]
          /\ Goto(r, "set")
          /\ UNCHANGED << raised, message >>
       \/ /\ Call(r, "extract")
          /\ \E msg \in ExtractorMessages :
                /\ message' = [message EXCEPT ![r] = msg]
                /\ Return(r, ExtractionError(msg))
          /\ raised' = [raised EXCEPT ![r] = "extract"]
          /\ UNCHANGED audio_url
    /\ UNCHANGED << cache, cookie_data, video_id, cached_audio_url,
                    atLookup, probe, prior, expired >>

\* variant of the write step whose entry reaches the store although the call raises
Set_WriteThenFail(r) ==
    /\ pc[r] = "set"
    /\ Call(r, "set")
    /\ cache' = CacheSet(cache, AudioKey(video_id[r]), audio_url[r], AudioTimeout)
    /\ expired' = expired \ { AudioKey(video_id[r]) }
    /\ \/ /\ Return(r, AudioUrlResponse(audio_url[r]))
          /\ UNCHANGED << raised, message >>
       \/ /\ raised' = [raised EXCEPT ![r] = "set"]
          /\ message' = [message EXCEPT ![r] = CacheDownMessage]
          /\ Return(r, ExtractionError(CacheDownMessage))
    /\ UNCHANGED << cookie_data, video_id, cached_audio_url, audio_url,
                    atLookup, probe, prior >>

\* lines 140-143 and 145-151: cache.set inside the inner try
Set(r) ==
    /\ pc[r] = "set"
    /\ Call(r, "set")
    /\ \/ /\ cache' = CacheSet(cache, AudioKey(video_id[r]), audio_url[r], AudioTimeout)
          /\ expired' = expired \ { AudioKey(video_id[r]) }
          /\ Return(r, AudioUrlResponse(audio_url[r]))
          /\ UNCHANGED << raised, message >>
       \/ /\ raised' = [raised EXCEPT ![r] = "set"]
          /\ message' = [message EXCEPT ![r] = CacheDownMessage]
          /\ Return(r, ExtractionError(CacheDownMessage))
          /\ UNCHANGED << cache, expired >>
    /\ UNCHANGED << cookie_data, video_id, cached_audio_url, audio_url,
                    atLookup, probe, prior >>

\* the store drops an entry whose timeout has elapsed
Expire(k) ==
    /\ HasKey(cache, k)
    /\ cache' = CacheExpire(cache, k)
    /\ expired' = expired \cup {k}
    /\ lapsed' = lapsed \cup {k}
    /\ UNCHANGED << svars, lvars >>

stream_audio(r) ==
    /\ \/ Start(r)
       \/ Lookup(r)
       \/ Validate(r)
       \/ Cookies(r)
       \/ Extract(r)
       \/ Set(r)
    /\ UNCHANGED << lapsed, lvars >>

\* ---------------------------------------------------------------- list handlers
ListReturn(i, x) ==
    /\ lresp' = [lresp EXCEPT ![i] = x]
    /\ lpc' = [lpc EXCEPT ![i] = "done"]

\* lines 161-166 and 190-195: read the body, reject a missing videoId or title
ListStart(i) ==
    /\ lpc[i] = "idle"
    /\ \E op \in Endpoints :
        /\ lop' = [lop EXCEPT ![i] = op]
        /\ IF op \in Posts
             THEN \E b \in Bodies :
                    /\ lsong' = [lsong EXCEPT ![i] = b]
                    /\ IF ~StrTruthy(b.videoId) \/ ~StrTruthy(b.title)
                         THEN ListReturn(i, FieldsRequired)
                         ELSE lpc' = [lpc EXCEPT ![i] = "get"] /\ UNCHANGED lresp
             ELSE /\ lpc' = [lpc EXCEPT ![i] = "get"]
                  /\ UNCHANGED << lsong, lresp >>
    /\ lprior' = [lprior EXCEPT ![i] = { j \in ListRequests : lpc[j] = "done" }]
    /\ UNCHANGED << cache, expired, lapsed, svars, llist, lraised >>

\* what `eval(x) if x else []` leaves in the local list, when eval does not raise
Loaded(x) == IF Truthy(x) THEN PyEval(x) ELSE <<>>

\* lines 169-174, 183-185, 198-203, 212-214: cache.get, eval, and the update
\* of the local list (POST) or the response (GET)
ListGet(i) ==
    /\ lpc[i] = "get"
    /\ \/ \* the backend is unreachable
          /\ lraised' = [lraised EXCEPT ![i] = "get"]
          /\ ListReturn(i, ListServerError)
          /\ UNCHANGED llist
       \/ LET x == CacheGet(cache, ListKey(lop[i])) IN
            IF Truthy(x) /\ PyEvalRaises(x)
              THEN /\ lraised' = [lraised EXCEPT ![i] = "eval"]
                   /\ ListReturn(i, ListServerError)
                   /\ UNCHANGED llist
              ELSE /\ UNCHANGED lraised
                   /\ IF lop[i] \in Posts
                        THEN /\ llist' = [llist EXCEPT ![i] =
                                    IF lop[i] = "add_recently_played"
                                      THEN AppendBounded(Loaded(x), lsong[i])
                                      ELSE AppendIfAbsent(Loaded(x), lsong[i])]
                             /\ lpc' = [lpc EXCEPT ![i] = "set"]
                             /\ UNCHANGED lresp
                        ELSE /\ llist' = [llist EXCEPT ![i] = Loaded(x)]
                             /\ ListReturn(i, ListBody(Loaded(x)))
    /\ UNCHANGED << cache, expired, lapsed, svars, lop, lsong, lprior >>

\* lines 177-178 and 206-207: cache.set of the updated list
ListSet(i) ==
    /\ lpc[i] = "set"
    /\ \/ /\ cache' = CacheSet(cache, ListKey(lop[i]), PyList(llist[i]), ListTimeout(lop[i]))
          /\ expired' = expired \ { ListKey(lop[i]) }
          /\ ListReturn(i, Added(lop[i]))
          /\ UNCHANGED lraised
       \/ /\ lraised' = [lraised EXCEPT ![i] = "set"]
          /\ ListReturn(i, ListServerError)
          /\ UNCHANGED << cache, expired >>
    /\ UNCHANGED << lapsed, svars, lop, lsong, llist, lprior >>

list_request(i) ==
    \/ ListStart(i)
    \/ ListGet(i)
    \/ ListSet(i)

NextList ==
    \/ \E i \in ListRequests : list_request(i)
    \/ \E k \in ListKeys : Expire(k)

ListSpec == Init /\ [][NextList]_vars

\* ---------------------------------------------------------------- both kinds
\* One /stream request and one list request, interleaved, against a store
\* that earlier requests have filled: any choice of a cached URL per videoId
\* and of a one-song recently-played and liked-songs list.
FilledEntries ==
    { [key |-> AudioKey(v), val |-> Url(v, 1), timeout |-> AudioTimeout] :
          v \in VideoIds \ {NoVideoId} }
    \cup { [key |-> RecentKey, val |-> PyList(<<Song("x", "t")>>), timeout |-> RecentTimeout],
           [key |-> LikedKey, val |-> PyList(<<Song("x", "t")>>), timeout |-> LikedTimeout] }

InitApp ==
    /\ cache \in SUBSET FilledEntries
    /\ InitRequests

NextApp ==
    \/ \E r \in Requests :
          /\ \A q \in Requests \ {r} : pc[q] = "idle"
          /\ stream_audio(r)
    \/ \E i \in ListRequests :
          /\ \A j \in ListRequests \ {i} : lpc[j] = "idle"
          /\ list_request(i)
    \/ \E k \in Keys \cup ListKeys : Expire(k)

AppSpec == InitApp /\ [][NextApp]_vars

Next ==
    \/ \E r \in Requests : stream_audio(r)
    \/ \E k \in Keys : Expire(k)

Spec == Init /\ [][Next]_vars

TypeOK ==
    /\ \A e \in cache : e.key \in Keys \cup ListKeys /\ Truthy(e.val)
    /\ \A r \in Requests : pc[r] \in {"idle", "lookup", "validate", "cookies", "extract", "set", "done"}

\* ---------------------------------------------------------------- properties
\* request r made the external call `name`
Did(r, name) == \E i \in 1..Len(ops[r]) : ops[r][i] = name
Key(r) == AudioKey(video_id[r])
Succeeded(r) == pc[r] = "done" /\ resp[r].status = 200
\* the request was answered out of the extraction branch (lines 139-143)
ExtractedAndServed(r) ==
    /\ Succeeded(r)
    /\ Truthy(audio_url[r])
    /\ resp[r] = AudioUrlResponse(audio_url[r])
\* the probe was made and did not pass the test of line 100
ProbeFailed(r) == probe[r] # -1 /\ probe[r] # 200
\* statuses the specification's validator accepts
SuccessRange == 200..299
\* the identifier allow-list of the specification (a sample of the alphanumerics)
AllowList == { "a", "b", "A", "0", "1", "-", "_" }
WellFormed(v) == \A i \in 1..Len(v) : v[i] \in AllowList
\* what a client can tell apart: the status and the fixed part of the body
OutcomeClass(x) == << x.status, IF x.error = <<>> THEN "" ELSE Head(x.error) >>

\* C1: a URL returned in a success response is either the URL the store held
\* for this videoId at lookup, probed in this request with a success status, or
\* the URL this request's own extraction produced.
ServedUrlValidatedOrExtracted ==
    \A r \in Requests :
        Succeeded(r) =>
            \/ /\ Truthy(atLookup[r])
               /\ resp[r].audioUrl = atLookup[r]
               /\ Did(r, "head")
               /\ probe[r] \in SuccessRange
            \/ /\ Did(r, "extract")
               /\ Truthy(audio_url[r])
               /\ audio_url[r] \in UrlsOf(video_id[r])
               /\ resp[r].audioUrl = audio_url[r]

\* C1 witness: one request served a probed cached URL, another an extracted one
ServedBothWays ==
    \E r, q \in Requests :
        /\ Succeeded(r) /\ Did(r, "head") /\ resp[r].audioUrl = atLookup[r]
        /\ Succeeded(q) /\ Did(q, "extract") /\ resp[q].audioUrl = audio_url[q]

\* C2: when the probe of a cached URL fails, the entry is deleted before the
\* request goes on to extraction, and a request that then fails (with no other
\* request in flight or later) leaves no entry for the videoId.
InvalidEntryDeletedBeforeExtraction ==
    \A r \in Requests :
        ProbeFailed(r) =>
            /\ Did(r, "delete")
            /\ ( /\ pc[r] = "done"
                 /\ resp[r].status # 200
                 /\ \A q \in Requests \ {r} : q \in prior[r] \/ pc[q] = "idle" )
               => ~HasKey(cache, Key(r))

\* C3: a request whose cache lookup found the backend unreachable goes on to
\* the extraction stage and is never answered with the backend's error.
CacheUnavailableFallsBackToExtraction ==
    \A r \in Requests :
        (pc[r] = "done" /\ raised[r] = "get") =>
            /\ Did(r, "getenv")
            /\ resp[r] # InternalServerError

\* C4: a request whose extraction produced a URL answers success with that
\* URL, whether or not the cache write went through.
WriteFailureKeepsSuccess ==
    \A r \in Requests :
        (pc[r] = "done" /\ Truthy(audio_url[r])) => resp[r] = AudioUrlResponse(audio_url[r])

\* C5: of two requests for the same videoId, one after the other, where the
\* first found nothing cached and succeeded by extraction and the second found
\* the store still holding the URL the first wrote, with the probe of that URL
\* answering 200: the second returns that URL after one probe and no extraction.
SecondResolutionIsCacheHit ==
    \A a, b \in Requests :
        ( /\ a \in prior[b]
          /\ video_id[a] = video_id[b]
          /\ ~Truthy(atLookup[a])
          /\ ExtractedAndServed(a)
          /\ pc[b] = "done"
          /\ raised[b] # "get"
          /\ atLookup[b] = audio_url[a]
          /\ probe[b] \in {-1, 200} )
        => /\ resp[b] = AudioUrlResponse(audio_url[a])
           /\ ops[b] = <<"get", "head">>

\* C5 witness: the second of two sequential requests was a validated cache hit
SecondWasCacheHit ==
    \E a, b \in Requests :
        /\ a \in prior[b]
        /\ video_id[a] = video_id[b]
        /\ ops[a] = <<"get", "getenv", "extract", "set">>
        /\ ExtractedAndServed(a)
        /\ pc[b] = "done"
        /\ atLookup[b] = audio_url[a]
        /\ probe[b] = 200
        /\ resp[b] = AudioUrlResponse(audio_url[a])

\* C6: a request whose identifier has a character outside the allow-list makes
\* no external call and is answered with the client error.
MalformedIdRejected ==
    \A r \in Requests :
        (pc[r] # "idle" /\ Truthy(video_id[r]) /\ ~WellFormed(video_id[r])) =>
            /\ ops[r] = <<>>
            /\ pc[r] = "done" => resp[r].status = 400

\* C7: a bot-check failure is answered as BotDetection (403), and a
\* private-content failure with an outcome distinct from both the bot-check
\* outcome and the outcome of an unclassified failure.
ExtractionErrorsDistinct ==
    \A r \in Requests :
        (pc[r] = "done" /\ raised[r] = "extract") =>
            /\ Contains(message[r], BotMarker) => resp[r] = BotDetection
            /\ message[r] = PrivateMessage =>
                /\ OutcomeClass(resp[r]) # OutcomeClass(BotDetection)
                /\ OutcomeClass(resp[r]) # OutcomeClass(ExtractionError(UnavailableMessage))

\* C8: a request that reaches the extraction stage without cookie
\* configuration is answered in the class of the bot-check failure, not 500.
MissingCredentialsIsAuthRequired ==
    \A r \in Requests :
        (pc[r] = "done" /\ Did(r, "getenv") /\ ~Truthy(cookie_data)) =>
            /\ OutcomeClass(resp[r]) = OutcomeClass(BotDetection)
            /\ resp[r].status # 500

\* C9: the steps of a request that is answered from the cache (hit, probe
\* passed) leave the store as it was, and the request makes no call but the
\* lookup and the probe: no write, delete, extraction or cookie read.
FastPathStep(r) ==
    /\ pc[r] = "validate"
    /\ pc'[r] = "done"
    /\ resp'[r].status = 200
FastPathFrame ==
    [][ \A r \in Requests :
          /\ FastPathStep(r) =>
                /\ cache' = cache
                /\ ops'[r] = <<"get", "head">>
                /\ resp'[r] = AudioUrlResponse(atLookup[r])
          /\ (pc[r] = "lookup" /\ pc'[r] # "lookup") => cache' = cache ]_vars

\* C9 witness: a request was answered from the cache while the store holds an entry
FastPathTaken ==
    \E r \in Requests :
        /\ Succeeded(r)
        /\ probe[r] = 200
        /\ ops[r] = <<"get", "head">>
        /\ HasKey(cache, Key(r))

\* C10: the store never holds two entries for one videoId; no step of a
\* request removes an entry, and a step that changes one writes the URL that
\* request extracted; when no request is in flight, some request succeeded by
\* extraction and the entry has not expired since, the entry is the URL one of
\* those requests wrote.
Writers(k) == { r \in Requests : ExtractedAndServed(r) /\ Key(r) = k }
NoneInFlight == \A r \in Requests : pc[r] \in {"idle", "done"}
OneEntryPerKey == \A k \in Keys : Cardinality({ e \in cache : e.key = k }) <= 1
LastWriterStands ==
    \A k \in Keys :
        (NoneInFlight /\ Writers(k) # {} /\ k \notin expired) =>
            /\ HasKey(cache, k)
            /\ CacheGet(cache, k) \in { audio_url[r] : r \in Writers(k) }
OnlyOwnWrites ==
    \A k \in Keys :
        (HasKey(cache, k) /\ pc' # pc) =>
            /\ HasKey(cache', k)
            /\ CacheGet(cache', k) # CacheGet(cache, k) =>
                  \E r \in Requests :
                      /\ pc[r] = "set" /\ pc'[r] = "done"
                      /\ Key(r) = k
                      /\ CacheGet(cache', k) = audio_url[r]
ConcurrentWritesLastWins ==
    /\ [](OneEntryPerKey /\ LastWriterStands)
    /\ [][OnlyOwnWrites]_vars

\* C10 witness: two overlapping requests for one videoId both wrote, with
\* different URLs, and the store holds one of them
ConcurrentWritersFinished ==
    \E a, b \in Requests :
        /\ a # b /\ a \notin prior[b] /\ b \notin prior[a]
        /\ Key(a) = Key(b)
        /\ ExtractedAndServed(a) /\ ExtractedAndServed(b)
        /\ audio_url[a] # audio_url[b]
        /\ CacheGet(cache, Key(a)) \in { audio_url[a], audio_url[b] }

\* C11: a probe status in 200..299 makes the request serve the cached URL
\* without going further; any other status, or a probe that raised, sends the
\* request on to the extraction stage.
ProbeStatusRangeDecides ==
    \A r \in Requests :
        probe[r] # -1 =>
            IF probe[r] \in SuccessRange
              THEN /\ pc[r] = "done"
                   /\ resp[r] = AudioUrlResponse(cached_audio_url[r])
                   /\ ops[r] = <<"get", "head">>
              ELSE /\ pc[r] # "done" \/ Did(r, "getenv")
                   /\ Succeeded(r) => Did(r, "extract")

\* C12: a request makes each of the calls get, head, getenv, extract, set at
\* most once and in that order, every step moves it strictly forward in
\* Start -> CacheLookup -> Validate -> Extract -> Respond (so it takes at most
\* six steps), and a request that is not yet answered always has a next step.
CallOrder == <<"get", "head", "getenv", "extract", "set">>
Position(name) == CHOOSE i \in 1..Len(CallOrder) : CallOrder[i] = name
Rank(l) ==
    CASE l = "idle" -> 0
      [] l = "lookup" -> 1
      [] l = "validate" -> 2
      [] l = "cookies" -> 3
      [] l = "extract" -> 4
      [] l = "set" -> 5
      [] l = "done" -> 6
CallsInOrder ==
    \A r \in Requests :
        /\ \A i \in 1..Len(ops[r]) : \E j \in 1..Len(CallOrder) : ops[r][i] = CallOrder[j]
        /\ \A i, j \in 1..Len(ops[r]) : i < j => Position(ops[r][i]) < Position(ops[r][j])
StepsForward == \A r \in Requests : pc'[r] # pc[r] => Rank(pc'[r]) > Rank(pc[r])
NeverStuck == \A r \in Requests : pc[r] # "done" => ENABLED stream_audio(r)
SingleChainTerminates ==
    /\ [](CallsInOrder /\ NeverStuck)
    /\ [][StepsForward]_vars

\* C12 witness: a request went through lookup, probe and extraction and was answered
FullChainAnswered ==
    \E r \in Requests :
        /\ pc[r] = "done"
        /\ ops[r] = <<"get", "head", "getenv", "extract", "set">>

\* C13: a request whose cache lookup found the backend unreachable and that
\* ends in an error reports the failure of the extraction stage (the
\* extractor's message, or the missing cookie configuration), not the cache's.
CacheDownReportsExtractionFailure ==
    \A r \in Requests :
        (pc[r] = "done" /\ raised[r] = "get" /\ resp[r].status # 200) =>
            \/ resp[r] = CookieConfigMissing
            \/ /\ message[r] \in ExtractorMessages
               /\ resp[r] = ExtractionError(message[r])

\* C14: the only step of a request that changes the store is the one that
\* answers success; a request that ends in an error has changed no entry.
WroteStore(r) == pc'[r] # pc[r] /\ cache' # cache
ErrorRequestsWriteNothing ==
    [][ \A r \in Requests :
          WroteStore(r) => (pc'[r] = "done" /\ resp'[r].status = 200) ]_vars

\* C14 witness: a request failed in the extraction stage while the store held
\* an entry for its videoId
FailedWithEntryStored ==
    \E r \in Requests :
        /\ pc[r] = "done"
        /\ resp[r].status # 200
        /\ Did(r, "extract")
        /\ HasKey(cache, Key(r))

\* ---------------------------------------------------------------- list properties
NoListInFlight == \A i \in ListRequests : lpc[i] \in {"idle", "done"}
\* the list requests so far ran one after the other
Sequential ==
    \A i, j \in ListRequests :
        (i # j /\ lpc[i] # "idle" /\ lpc[j] # "idle") => (i \in lprior[j] \/ j \in lprior[i])
ListFinished(i, op) == lpc[i] = "done" /\ lop[i] = op
\* the request was answered with its success message
Acknowledged(i) == lpc[i] = "done" /\ lop[i] \in Posts /\ lresp[i] = Added(lop[i])
ValidBody(b) == StrTruthy(b.videoId) /\ StrTruthy(b.title)
\* the list the store holds under key k
Stored(k) == IF HasKey(cache, k) THEN CacheGet(cache, k)[2] ELSE <<>>
NoDuplicates(q) == \A m, n \in 1..Len(q) : q[m] = q[n] => m = n

\* the songs of the acknowledged recently-played adds among the requests in S,
\* in the order the requests ran
RecentAdds(S) == { i \in S : Acknowledged(i) /\ lop[i] = "add_recently_played" }
Turn(S, i) == Cardinality({ j \in RecentAdds(S) : j \in lprior[i] }) + 1
AddedSongs(S) ==
    [ n \in 1..Cardinality(RecentAdds(S)) |->
        lsong[CHOOSE i \in RecentAdds(S) : Turn(S, i) = n] ]

\* C15: when the list requests ran one after the other (and the entry never
\* expired), the stored recently-played list is the last min(n, 10) songs of
\* the acknowledged adds in order, and a GET /recently-played that reached the
\* store returns exactly the list of the adds before it.
RecentlyPlayedKeepsLastTen ==
    (Sequential /\ RecentKey \notin lapsed) =>
        /\ Len(Stored(RecentKey)) <= RecentLimit
        /\ NoListInFlight => Stored(RecentKey) = LastN(AddedSongs(ListRequests), RecentLimit)
        /\ \A i \in ListRequests :
              (ListFinished(i, "get_recently_played") /\ lraised[i] # "get") =>
                  lresp[i] = ListBody(LastN(AddedSongs(lprior[i]), RecentLimit))

\* C16: when the list requests ran one after the other (and the entry never
\* expired), the stored liked-songs list has no two equal entries and holds the
\* pair of every POST /liked-songs that was submitted with both fields and was
\* not stopped by an unreachable backend.
LikedSongsDedupComplete ==
    (Sequential /\ LikedKey \notin lapsed) =>
        /\ NoDuplicates(Stored(LikedKey))
        /\ \A i \in ListRequests :
              ( /\ ListFinished(i, "like_song")
                /\ ValidBody(lsong[i])
                /\ lraised[i] \notin {"get", "set"} )
              => InList(Stored(LikedKey), lsong[i])

\* C17: once no list request is in flight, the song of every acknowledged
\* POST is in the stored list of its endpoint (the entry never having expired,
\* and at most 10 recently-played songs having been added).
AcknowledgedAddsPresent ==
    \A i \in ListRequests :
        ( /\ NoListInFlight
          /\ Acknowledged(i)
          /\ ListKey(lop[i]) \notin lapsed
          /\ Cardinality(RecentAdds(ListRequests)) <= RecentLimit )
        => InList(Stored(ListKey(lop[i])), lsong[i])

\* C18: a step of a /stream request for videoId v leaves the cached URL of
\* every other videoId and both stored lists as they were, and what its lookup
\* reads is the entry of v; a step of a recently-played or liked-songs request
\* leaves the cached URL of every videoId as it was.
OtherIds(v) == VideoIds \ {NoVideoId, v}
SameAudio(w) == CacheGet(cache', AudioKey(w)) = CacheGet(cache, AudioKey(w))
StreamStepFrame(r) ==
    /\ \A w \in OtherIds(video_id'[r]) : SameAudio(w)
    /\ \A k \in ListKeys : CacheGet(cache', k) = CacheGet(cache, k)
    /\ cached_audio_url'[r] # cached_audio_url[r] =>
           cached_audio_url'[r] = CacheGet(cache, AudioKey(video_id[r]))
ListStepFrame == \A w \in VideoIds \ {NoVideoId} : SameAudio(w)
KeysKeptApart ==
    [][ /\ \A r \in Requests : pc'[r] # pc[r] => StreamStepFrame(r)
        /\ \A i \in ListRequests : lpc'[i] # lpc[i] => ListStepFrame ]_vars

\* C18 witness: a /stream request wrote its URL and a list request wrote its
\* list while the store held the URL of another videoId and the other list
BothWroteBesideOthers ==
    \E r \in Requests, i \in ListRequests :
        /\ ExtractedAndServed(r)
        /\ CacheGet(cache, Key(r)) = audio_url[r]
        /\ \E w \in OtherIds(video_id[r]) : HasKey(cache, AudioKey(w))
        /\ Acknowledged(i)
        /\ \A k \in ListKeys : HasKey(cache, k)
====
